---- MODULE Spec2Model ----
(***************************************************************************)
(* Model of `oc policy remove-user` / `remove-group`                       *)
(* (RemoveFromProjectOptions in package policy): Complete fills the        *)
(* options from the command line, Run lists the role bindings of the       *)
(* project, sorts them by descending name and, binding by binding,         *)
(* removes the requested users or groups, dispatches Update/Delete to the  *)
(* role-binding client and writes the report.                              *)
(*                                                                         *)
(* Strings that the code compares with < are given their characters by     *)
(* NameChars; sets.String values are TLA+ sets; o.Users and o.Groups are   *)
(* sets as well, because Run reads them only through sets.NewString and    *)
(* through membership of the needles of removeSubjects.                    *)
(***************************************************************************)
EXTENDS Integers, Sequences, FiniteSets, TLC

VARIABLES o, run, world

vars == <<o, run, world>>

-----------------------------------------------------------------------------
(* Bounds of the model.                                                    *)

\* the most subjects the role bindings of the project hold in total
MaxSubjects == 3

-----------------------------------------------------------------------------
(* Data: subjects, role bindings, the inputs the model draws from.         *)

UserKind == "User"

GroupKind == "Group"

ServiceAccountKind == "ServiceAccount"

Subject(kind, namespace, name) == [Kind |-> kind, Namespace |-> namespace, Name |-> name]

\* the subjects a listed binding may hold: a user, a user entry of the same
\* name carrying a namespace, a group named like the user, a service account,
\* a subject of another kind
SubjectUniverse ==
    { Subject(UserKind, "", "a"), Subject(UserKind, "n", "a"),
      Subject(GroupKind, "", "a"),
      Subject(ServiceAccountKind, "n", "a"), Subject("SystemUser", "", "a") }

\* the names remove-user may be given
UserArgs == {"a", "b"}

\* the names remove-group may be given
GroupArgs == {"a"}

OutputFormats == {"", "yaml"}

DryRunNone == "none"

DryRunClient == "client"

DryRunServer == "server"

DryRunStrategies == {DryRunNone, DryRunClient, DryRunServer}

\* the project (o.BindingNamespace)
Project == "p"

\* the names of the role bindings of the project (the first k, for k bindings),
\* and their characters (for Go's < on strings)
BindingNameSeq == <<"ab", "b", "a">>

NameChars == [a |-> <<1>>, ab |-> <<1, 2>>, b |-> <<2>>]

RoleRefOf(name) ==
    IF name \in {"a", "ab"} THEN [Kind |-> "ClusterRole", Name |-> "admin"]
    ELSE [Kind |-> "Role", Name |-> "view"]

RoleBinding(name, subjects) ==
    [Name |-> name, Namespace |-> Project, RoleRef |-> RoleRefOf(name), Subjects |-> subjects]

SubjectLists == UNION { [1..n -> SubjectUniverse] : n \in 0..MaxSubjects }

\* the ways to cut a list of n subjects into k consecutive pieces
Cuts(n, k) ==
    { c \in [0..k -> 0..n] :
        /\ c[0] = 0
        /\ c[k] = n
        /\ \A j \in 1..k : c[j-1] <= c[j] }

\* the states of the project: bindings of distinct names holding at most
\* MaxSubjects subjects together
Clusters ==
    UNION { UNION { { { RoleBinding(BindingNameSeq[j], SubSeq(flat, c[j-1] + 1, c[j])) : j \in 1..k } :
                        c \in Cuts(Len(flat), k) } :
                    flat \in SubjectLists } :
            k \in 0..Len(BindingNameSeq) }

\* the orders in which the lister may return the bindings of the project
Listings(cluster) ==
    { l \in [1..Cardinality(cluster) -> cluster] : \A i, j \in DOMAIN l : i # j => l[i] # l[j] }

-----------------------------------------------------------------------------
(* Helpers of the libraries the code calls.                                *)

\* sets.NewString(list...)
NewString(list) == { list[k] : k \in DOMAIN list }

\* Go's < on strings: bytewise lexicographic
RECURSIVE LexLess(_, _)
LexLess(x, y) ==
    IF y = <<>> THEN FALSE
    ELSE IF x = <<>> THEN TRUE
    ELSE IF Head(x) # Head(y) THEN Head(x) < Head(y)
    ELSE LexLess(Tail(x), Tail(y))

StrLess(x, y) == LexLess(NameChars[x], NameChars[y])

\* roleBindingSorter.Less on two elements
Less(x, y) == StrLess(x.Name, y.Name)

\* (fault: the sort is not reversed)
ReverseLessDropped(x, y) == Less(x, y)

\* sort.Reverse(data).Less(i, j) is data.Less(j, i)
ReverseLess(x, y) == Less(y, x)

\* (fault: Swap overwrites one element with the other instead of exchanging them)
InsertOverwrites(x, sorted) ==
    IF sorted = <<>> THEN <<x>>
    ELSE IF ReverseLess(x, Head(sorted)) THEN <<x>> \o sorted
    ELSE <<Head(sorted)>> \o sorted

\* sort.Sort under ReverseLess, as an insertion sort (the names are distinct,
\* so the result does not depend on the algorithm)
RECURSIVE Insert(_, _)
Insert(x, sorted) ==
    IF sorted = <<>> THEN <<x>>
    ELSE IF ReverseLess(x, Head(sorted)) THEN <<x>> \o sorted
    ELSE <<Head(sorted)>> \o Insert(x, Tail(sorted))

RECURSIVE SortReverse(_)
SortReverse(items) ==
    IF items = <<>> THEN <<>> ELSE Insert(Head(items), SortReverse(Tail(items)))

\* authorizationutil.BuildRBACSubjects(users, groups): one User subject per
\* user name, one Group subject per group name, none with a namespace
BuildRBACSubjects(users, groups) ==
    { Subject(UserKind, "", u) : u \in users } \cup { Subject(GroupKind, "", g) : g \in groups }

\* removeSubjects(haystack, needles): the haystack, in order, without the
\* subjects whose kind and name are those of a needle
removeSubjects(haystack, needles) ==
    SelectSeq(haystack, LAMBDA s : ~ \E n \in needles : n.Kind = s.Kind /\ n.Name = s.Name)

-----------------------------------------------------------------------------
(* The role-binding client (lister and mutation sink).                     *)

\* RoleBindings(ns).Update(binding): the stored binding of that name is replaced
SinkUpdate(cluster, binding) ==
    { b \in cluster : b.Name # binding.Name } \cup { binding }

\* RoleBindings(ns).Delete(name)
SinkDelete(cluster, name) == { b \in cluster : b.Name # name }

-----------------------------------------------------------------------------
(* RemoveFromProjectOptions.                                               *)

\* NewRemoveFromProjectOptions: no users, no groups, no output, no dry-run
NewRemoveFromProjectOptions ==
    [Users |-> {}, Groups |-> {}, DryRunStrategy |-> DryRunNone, Output |-> "",
     BindingNamespace |-> ""]

\* the frame of Run before Run is entered
NewRun ==
    [pc |-> "Complete", err |-> "nil", items |-> <<>>, i |-> 0,
     usersRemoved |-> {}, groupsRemoved |-> {}, sasRemoved |-> {}, othersRemoved |-> {},
     updatedBindings |-> <<>>, visited |-> <<>>]

\* subjectsStrings: the names of the subjects by category, in order
subjectsStrings(subjects) ==
    LET sel(P(_)) == SelectSeq(subjects, P)
        sas    == sel(LAMBDA s : s.Kind = ServiceAccountKind)
        users  == sel(LAMBDA s : s.Kind = UserKind)
        groups == sel(LAMBDA s : s.Kind = GroupKind)
        others == sel(LAMBDA s : s.Kind \notin {ServiceAccountKind, UserKind, GroupKind})
    IN  [users  |-> [k \in DOMAIN users |-> users[k].Name],
         groups |-> [k \in DOMAIN groups |-> groups[k].Name],
         sas    |-> [k \in DOMAIN sas |-> <<sas[k].Namespace, "/", sas[k].Name>>],
         others |-> [k \in DOMAIN others |->
                        <<others[k].Kind, "/", others[k].Namespace, "/", others[k].Name>>]]

\* (fault: the marker is written for every dry-run strategy)
DryRunTextAnyStrategy(opts) ==
    IF opts.DryRunStrategy # DryRunNone THEN " (dry client run)" ELSE ""

\* dryRunText
DryRunText(opts) == IF opts.DryRunStrategy = DryRunClient THEN " (dry client run)" ELSE ""

\* (fault: the two name lists are passed in the wrong order)
subjectsToRemoveSwapped(opts) == BuildRBACSubjects(opts.Groups, opts.Users)

\* subjectsToRemove
subjectsToRemove(opts) == BuildRBACSubjects(opts.Users, opts.Groups)

\* (fault: the comparison never holds, so no binding is skipped)
UntouchedWrongComparison(newSubjects, originalSubjects) == Len(newSubjects) > Len(originalSubjects)

\* the guard of the continue of an untouched binding
Untouched(newSubjects, originalSubjects) == Len(newSubjects) = Len(originalSubjects)

\* (fault: the structured-output branch is taken only without a dry-run)
AccumulatesOnlyLive(opts) == opts.Output # "" /\ opts.DryRunStrategy = DryRunNone

\* the guard of the structured-output branch
Accumulates(opts) == opts.Output # ""

\* (fault: the sink is called in a client dry-run only)
DispatchesInverted(opts) == opts.DryRunStrategy = DryRunClient

\* the guard of the calls to the sink
Dispatches(opts) == opts.DryRunStrategy # DryRunClient

\* (fault: the sink's error is not returned)
SinkFailedIgnored(opts, ok) == FALSE

\* the guard of the return of the sink's error
SinkFailed(opts, ok) == Dispatches(opts) /\ ~ok

\* (fault: Update is called whether or not subjects remain)
SinkCallAlwaysUpdate(binding, ok) ==
    [op |-> "Update", name |-> binding.Name, subjects |-> binding.Subjects, ok |-> ok]

\* the call made for a changed binding: Update while subjects remain, else Delete
\* (ok: whether the sink accepted it)
SinkCall(binding, ok) ==
    IF Len(binding.Subjects) > 0
    THEN [op |-> "Update", name |-> binding.Name, subjects |-> binding.Subjects, ok |-> ok]
    ELSE [op |-> "Delete", name |-> binding.Name, subjects |-> <<>>, ok |-> ok]

\* (fault: Update is sent for the binding as listed, not as filtered)
CommitAsListed(cluster, binding) ==
    IF Len(binding.Subjects) > 0 THEN cluster
    ELSE SinkDelete(cluster, binding.Name)

\* the effect of a successful call on the stored bindings
Commit(cluster, binding) ==
    IF Len(binding.Subjects) > 0 THEN SinkUpdate(cluster, binding)
    ELSE SinkDelete(cluster, binding.Name)

roleDisplayName(binding) ==
    IF binding.RoleRef.Kind = "ClusterRole" THEN <<binding.RoleRef.Name>>
    ELSE <<binding.Namespace, "/", binding.RoleRef.Name>>

\* one "Removing <role> from <category> <names> in project <ns><dryRunText>."
\* line; binding names the binding it was written for (not part of the text)
RemovingLine(opts, binding, category, diff) ==
    [kind |-> "Removing", role |-> roleDisplayName(binding), category |-> category,
     names |-> diff, project |-> opts.BindingNamespace, dryRunText |-> DryRunText(opts),
     binding |-> binding.Name]

\* one "<Category> <names> were not bound to roles in project <ns><dryRunText>." line
NotBoundLine(opts, category, diff) ==
    [kind |-> "NotBound", role |-> "", category |-> category,
     names |-> diff, project |-> opts.BindingNamespace, dryRunText |-> DryRunText(opts),
     binding |-> ""]

\* (fault: the service accounts are compared with the wrong new set)
CategoryDiffsWrongSet(old, new) ==
    << [category |-> "users", diff |-> NewString(old.users) \ NewString(new.users)],
       [category |-> "groups", diff |-> NewString(old.groups) \ NewString(new.groups)],
       [category |-> "serviceaccounts", diff |-> NewString(old.sas) \ NewString(new.others)],
       [category |-> "subjects", diff |-> NewString(old.others) \ NewString(new.others)] >>

\* (fault: each difference is taken the wrong way round)
CategoryDiffsReversed(old, new) ==
    << [category |-> "users", diff |-> NewString(new.users) \ NewString(old.users)],
       [category |-> "groups", diff |-> NewString(new.groups) \ NewString(old.groups)],
       [category |-> "serviceaccounts", diff |-> NewString(new.sas) \ NewString(old.sas)],
       [category |-> "subjects", diff |-> NewString(new.others) \ NewString(old.others)] >>

\* the four set differences of a changed binding, in the order they are reported
CategoryDiffs(old, new) ==
    << [category |-> "users", diff |-> NewString(old.users) \ NewString(new.users)],
       [category |-> "groups", diff |-> NewString(old.groups) \ NewString(new.groups)],
       [category |-> "serviceaccounts", diff |-> NewString(old.sas) \ NewString(new.sas)],
       [category |-> "subjects", diff |-> NewString(old.others) \ NewString(new.others)] >>

\* what a category's difference adds to its aggregate set
Inserted(removed, diff) == removed \cup diff

\* (fault: the error of the listing is not returned at once)
ListStepNoReturn(opts, r, w, listing, ok) ==
    [run |-> [r EXCEPT !.pc = "loop", !.err = IF ok THEN "nil" ELSE "list",
                       !.items = SortReverse(listing), !.i = 1],
     world |-> w]

\* Run, from its entry to the loop: list, sort, initialise the locals
ListStep(opts, r, w, listing, ok) ==
    IF ~ok
    THEN [run |-> [r EXCEPT !.pc = "done", !.err = "list"], world |-> w]
    ELSE [run |-> [r EXCEPT !.pc = "loop", !.items = SortReverse(listing), !.i = 1],
          world |-> w]

\* one iteration of the loop of Run over roleBindings.Items; ok is the outcome
\* of the sink call, if one is made
Body(opts, r, w, ok) ==
    LET currBinding      == r.items[r.i]
        originalSubjects == currBinding.Subjects
        old              == subjectsStrings(originalSubjects)
        newSubjects      == removeSubjects(currBinding.Subjects, subjectsToRemove(opts))
        new              == subjectsStrings(newSubjects)
        updated          == [currBinding EXCEPT !.Subjects = newSubjects]
        seen             == Append(r.visited, [name |-> currBinding.Name,
                                               original |-> originalSubjects,
                                               remaining |-> newSubjects])
        next             == [r EXCEPT !.i = r.i + 1, !.visited = seen]
        diffs            == SelectSeq(CategoryDiffs(old, new), LAMBDA d : d.diff # {})
        called           == IF Dispatches(opts)
                            THEN [w EXCEPT !.calls = Append(w.calls, SinkCall(updated, ok)),
                                           !.cluster = IF ok THEN Commit(w.cluster, updated) ELSE w.cluster]
                            ELSE w
        diffOf(category) == LET d == SelectSeq(diffs, LAMBDA x : x.category = category)
                            IN  IF d = <<>> THEN {} ELSE d[1].diff
    IN  IF Untouched(newSubjects, originalSubjects)
        THEN [run |-> next, world |-> w]
        ELSE IF Accumulates(opts)
        THEN [run |-> [next EXCEPT !.updatedBindings = Append(r.updatedBindings, updated)],
              world |-> w]
        ELSE IF SinkFailed(opts, ok)
        THEN [run |-> [r EXCEPT !.pc = "done", !.err = "sink", !.visited = seen],
              world |-> called]
        ELSE [run |-> [next EXCEPT
                        !.usersRemoved  = Inserted(r.usersRemoved, diffOf("users")),
                        !.groupsRemoved = Inserted(r.groupsRemoved, diffOf("groups")),
                        !.sasRemoved    = Inserted(r.sasRemoved, diffOf("serviceaccounts")),
                        !.othersRemoved = Inserted(r.othersRemoved, diffOf("subjects"))],
              world |-> [called EXCEPT !.out = w.out \o
                            [k \in DOMAIN diffs |->
                                RemovingLine(opts, updated, diffs[k].category, diffs[k].diff)]]]

\* (fault: the difference is taken the wrong way round)
NotFoundReversed(requested, removed) == removed \ requested

\* the requested names of a category that no binding gave up
NotFound(requested, removed) == requested \ removed

\* (fault: Run does not return after printing the collected bindings)
FinishPrintsThenReports(opts, r, w, printOk) ==
    LET users  == NotFound(opts.Users, r.usersRemoved)
        groups == NotFound(opts.Groups, r.groupsRemoved)
    IN  [run |-> [r EXCEPT !.pc = "done"],
         world |-> [w EXCEPT !.printed = IF Accumulates(opts) THEN Append(w.printed, r.updatedBindings)
                                         ELSE w.printed,
                             !.out = w.out
                               \o (IF users # {} THEN <<NotBoundLine(opts, "Users", users)>> ELSE <<>>)
                               \o (IF groups # {} THEN <<NotBoundLine(opts, "Groups", groups)>> ELSE <<>>)]]

\* Run, after the loop: the structured output, or the not-bound lines
Finish(opts, r, w, printOk) ==
    IF Accumulates(opts)
    THEN [run |-> [r EXCEPT !.pc = "done", !.err = IF printOk THEN "nil" ELSE "print"],
          world |-> [w EXCEPT !.printed = Append(w.printed, r.updatedBindings)]]
    ELSE LET users  == NotFound(opts.Users, r.usersRemoved)
             groups == NotFound(opts.Groups, r.groupsRemoved)
         IN  [run |-> [r EXCEPT !.pc = "done"],
              world |-> [w EXCEPT !.out = w.out
                            \o (IF users # {} THEN <<NotBoundLine(opts, "Users", users)>> ELSE <<>>)
                            \o (IF groups # {} THEN <<NotBoundLine(opts, "Groups", groups)>> ELSE <<>>)]]

\* Run from the loop to its return when every collaborator call succeeds
RECURSIVE RunLoop(_, _, _)
RunLoop(opts, r, w) ==
    IF r.pc # "loop" THEN [run |-> r, world |-> w]
    ELSE IF r.i <= Len(r.items)
    THEN LET s == Body(opts, r, w, TRUE) IN RunLoop(opts, s.run, s.world)
    ELSE Finish(opts, r, w, TRUE)

\* Run on a listing when every collaborator call succeeds
RunAll(opts, listing) ==
    LET cluster == { listing[k] : k \in DOMAIN listing }
        w0 == [cluster |-> cluster, calls |-> <<>>, out |-> <<>>, printed |-> <<>>]
        s  == ListStep(opts, [NewRun EXCEPT !.pc = "Run"], w0, listing, TRUE)
    IN  RunLoop(opts, s.run, s.world)

-----------------------------------------------------------------------------
(* The state machine: one invocation of remove-user or remove-group.       *)

Init ==
    /\ o = NewRemoveFromProjectOptions
    /\ run = NewRun
    /\ \E cluster \in Clusters :
          world = [cluster |-> cluster, calls |-> <<>>, out |-> <<>>, printed |-> <<>>]

\* (fault: the number of arguments is not checked)
CompleteStepNoArgsCheck(opts, r, target, args, output, dry, status) ==
    LET fail(e) == [r EXCEPT !.pc = "done", !.err = e]
        o1 == [opts EXCEPT !.Output = output]
        o2 == [o1 EXCEPT !.DryRunStrategy = dry]
        o3 == IF target = "user" THEN [o2 EXCEPT !.Users = opts.Users \cup args]
              ELSE [o2 EXCEPT !.Groups = opts.Groups \cup args]
    IN  IF status = "dryrun" THEN [o |-> o1, run |-> fail("dryrun")]
        ELSE IF status = "printer" THEN [o |-> o2, run |-> fail("printer")]
        ELSE IF status = "config" THEN [o |-> o3, run |-> fail("config")]
        ELSE [o |-> [o3 EXCEPT !.BindingNamespace = Project],
              run |-> [r EXCEPT !.pc = "Run"]]

\* Complete(f, cmd, args, target, targetName), called by remove-user with
\* &o.Users and by remove-group with &o.Groups; CheckErr ends the command on an
\* error. status: "ok", or the first step that fails
CompleteStep(opts, r, target, args, output, dry, status) ==
    LET fail(e) == [r EXCEPT !.pc = "done", !.err = e]
        o1 == [opts EXCEPT !.Output = output]
        o2 == [o1 EXCEPT !.DryRunStrategy = dry]
        o3 == IF target = "user" THEN [o2 EXCEPT !.Users = opts.Users \cup args]
              ELSE [o2 EXCEPT !.Groups = opts.Groups \cup args]
    IN  IF args = {} THEN [o |-> opts, run |-> fail("args")]
        ELSE IF status = "dryrun" THEN [o |-> o1, run |-> fail("dryrun")]
        ELSE IF status = "printer" THEN [o |-> o2, run |-> fail("printer")]
        ELSE IF status = "config" THEN [o |-> o3, run |-> fail("config")]
        ELSE [o |-> [o3 EXCEPT !.BindingNamespace = Project],
              run |-> [r EXCEPT !.pc = "Run"]]

Complete ==
    /\ run.pc = "Complete"
    /\ \E target \in {"user", "group"}, output \in OutputFormats, dry \in DryRunStrategies,
          status \in {"ok", "dryrun", "printer", "config"} :
       \E args \in SUBSET (IF target = "user" THEN UserArgs ELSE GroupArgs) :
          /\ status = "dryrun" => dry = DryRunNone
          /\ args = {} => status = "ok" /\ dry = DryRunNone /\ output = ""
          /\ LET s == CompleteStep(o, run, target, args, output, dry, status)
             IN  o' = s.o /\ run' = s.run
    /\ UNCHANGED world

\* Run: the listing fails
RunListError ==
    /\ run.pc = "Run"
    /\ LET s == ListStep(o, run, world, <<>>, FALSE)
       IN  run' = s.run /\ world' = s.world
    /\ UNCHANGED o

\* Run: the listing, in any order, and the sort
RunList ==
    /\ run.pc = "Run"
    /\ \E listing \in Listings(world.cluster) :
          LET s == ListStep(o, run, world, listing, TRUE)
          IN  run' = s.run /\ world' = s.world
    /\ UNCHANGED o

\* Run: one iteration of the loop
RunBody ==
    /\ run.pc = "loop"
    /\ run.i <= Len(run.items)
    /\ \E ok \in BOOLEAN :
          LET s == Body(o, run, world, ok)
          IN  run' = s.run /\ world' = s.world
    /\ UNCHANGED o

\* Run: after the loop
RunFinish ==
    /\ run.pc = "loop"
    /\ run.i > Len(run.items)
    /\ \E printOk \in BOOLEAN :
          LET s == Finish(o, run, world, printOk)
          IN  run' = s.run /\ world' = s.world
    /\ UNCHANGED o

\* a command: Complete, Validate (which checks nothing and returns nil), Run
Next == Complete \/ RunListError \/ RunList \/ RunBody \/ RunFinish

Spec == Init /\ [][Next]_vars

\* the command keeps running until it returns: no step of it waits on anything
\* but a collaborator call, and every such call returns
FairSpec == Spec /\ WF_vars(Next)

-----------------------------------------------------------------------------
(* Vocabulary of the properties.                                           *)

\* live mode: no dry-run, no structured output
Live == o.DryRunStrategy = DryRunNone /\ o.Output = ""

\* Run returned without an error
Succeeded == run.pc = "done" /\ run.err = "nil"

\* Run has listed the bindings
Listed == run.pc \in {"loop", "done"} /\ run.err \in {"nil", "sink", "print"}

Visited == { run.visited[k] : k \in DOMAIN run.visited }

Changed(v) == Len(v.remaining) # Len(v.original)

CallsFor(name) == SelectSeq(world.calls, LAMBDA c : c.name = name)

LinesFor(name) == SelectSeq(world.out, LAMBDA l : l.binding = name)

\* a subject the request targets: a user among o.Users, a group among o.Groups
Targeted(s) ==
    \/ s.Kind = UserKind /\ s.Name \in o.Users
    \/ s.Kind = GroupKind /\ s.Name \in o.Groups

-----------------------------------------------------------------------------
(* C1: in live mode every changed binding that Run visits gets exactly one *)
(* sink call: Delete by name when no subject remains, Update carrying the  *)
(* filtered subjects when some but not all remain; a successful run has    *)
(* visited every listed binding; and in no mode is Delete called for a     *)
(* binding that keeps subjects or Update called with no subjects.          *)
C1_ActionPerBinding ==
    /\ Live =>
          \A v \in Visited :
             Changed(v) =>
                /\ Len(CallsFor(v.name)) = 1
                /\ LET c == CallsFor(v.name)[1]
                   IN  IF Len(v.remaining) = 0
                       THEN c.op = "Delete" /\ c.name = v.name
                       ELSE /\ 0 < Len(v.remaining) /\ Len(v.remaining) < Len(v.original)
                            /\ c.op = "Update" /\ c.subjects = v.remaining
    /\ Live /\ Succeeded =>
          { v.name : v \in Visited } = { run.items[k].Name : k \in DOMAIN run.items }
    /\ \A k \in DOMAIN world.calls :
          LET c == world.calls[k]
          IN  /\ c.op = "Update" => c.subjects # <<>>
              /\ c.op = "Delete" => \E v \in Visited : v.name = c.name /\ v.remaining = <<>>

\* a live run that succeeded after updating one binding and deleting another
C1_Witness ==
    /\ Live /\ Succeeded
    /\ \E j, k \in DOMAIN world.calls :
          world.calls[j].op = "Update" /\ world.calls[k].op = "Delete"

-----------------------------------------------------------------------------
(* C2: in every mode a visited binding whose remaining subject count       *)
(* equals its original count has no sink call, no report line and no entry *)
(* in the accumulated list, its stored binding is the listed one, and      *)
(* every name in an aggregate removed set was given up by a changed        *)
(* binding (an untouched one adds nothing).                                *)
GivenUp(v, kinds) ==
    { v.original[k].Name : k \in { j \in DOMAIN v.original : v.original[j].Kind \in kinds } }
        \ { v.remaining[k].Name : k \in { j \in DOMAIN v.remaining : v.remaining[j].Kind \in kinds } }

C2_UntouchedLeftAlone ==
    /\ \A v \in Visited :
          ~Changed(v) =>
             /\ CallsFor(v.name) = <<>>
             /\ LinesFor(v.name) = <<>>
             /\ \A k \in DOMAIN run.updatedBindings : run.updatedBindings[k].Name # v.name
    /\ run.usersRemoved \subseteq UNION { GivenUp(v, {UserKind}) : v \in { x \in Visited : Changed(x) } }
    /\ run.groupsRemoved \subseteq UNION { GivenUp(v, {GroupKind}) : v \in { x \in Visited : Changed(x) } }
    /\ \A b \in world.cluster :
          (\E v \in Visited : v.name = b.Name /\ ~Changed(v)) =>
             \E k \in DOMAIN run.items : run.items[k] = b

\* a finished run that visited a binding with subjects, none of them requested,
\* after changing another binding
C2_Witness ==
    /\ Succeeded
    /\ world.calls # <<>>
    /\ \E v \in Visited : ~Changed(v) /\ v.original # <<>>
    /\ \E v \in Visited : v.original = <<>>

-----------------------------------------------------------------------------
(* C3: the remaining subjects of every visited binding are its original    *)
(* subjects, in order, without every occurrence of every user named in     *)
(* o.Users and every group named in o.Groups, whatever their namespace.    *)
C3_RemainingIsFiltered ==
    \A v \in Visited : v.remaining = SelectSeq(v.original, LAMBDA s : ~Targeted(s))

\* remove-user a on a binding holding user a twice (once with a namespace) and
\* the group a: only the group remains
C3_Witness ==
    /\ o.Users = {"a"}
    /\ \E v \in Visited :
          /\ v.original = << Subject(UserKind, "", "a"), Subject(GroupKind, "", "a"),
                             Subject(UserKind, "n", "a") >>
          /\ v.remaining = << Subject(GroupKind, "", "a") >>

-----------------------------------------------------------------------------
(* C4: every service account and every subject of another kind of a        *)
(* visited binding is among its remaining subjects, as often as before;    *)
(* sasRemoved and othersRemoved stay empty and no "serviceaccounts" or     *)
(* "subjects" line is written.                                             *)
Occurrences(list, s) == Cardinality({ k \in DOMAIN list : list[k] = s })

C4_OnlyUsersAndGroupsRemoved ==
    /\ \A v \in Visited :
          \A k \in DOMAIN v.original :
             v.original[k].Kind \notin {UserKind, GroupKind} =>
                Occurrences(v.remaining, v.original[k]) = Occurrences(v.original, v.original[k])
    /\ run.sasRemoved = {}
    /\ run.othersRemoved = {}
    /\ \A k \in DOMAIN world.out : world.out[k].category \notin {"serviceaccounts", "subjects"}

\* a changed binding that held a service account and a subject of another kind
C4_Witness ==
    /\ Succeeded /\ o.Output = ""
    /\ \E v \in Visited :
          /\ Changed(v)
          /\ \E k \in DOMAIN v.original : v.original[k].Kind = ServiceAccountKind
          /\ \E k \in DOMAIN v.original : v.original[k].Kind = "SystemUser"

-----------------------------------------------------------------------------
(* C5: whenever a dry-run is requested (client or server) Run makes no     *)
(* Update and no Delete call.                                              *)
C5_DryRunMakesNoCalls ==
    o.DryRunStrategy # DryRunNone => world.calls = <<>>

-----------------------------------------------------------------------------
(* C6: a dry-run that reports (no structured output) and a live run in     *)
(* which every call succeeds, on the same listing and request, visit the   *)
(* same bindings with the same remaining subjects, build the same          *)
(* aggregate removed sets and not-found sets and write the same lines.     *)

\* the live run on the bindings this run listed
LiveReference == RunAll([o EXCEPT !.DryRunStrategy = DryRunNone], run.items)

DryRunReported == Succeeded /\ o.DryRunStrategy # DryRunNone /\ o.Output = ""

SameDiffsAndSets(live) ==
    /\ live.run.visited = run.visited
    /\ live.run.usersRemoved = run.usersRemoved
    /\ live.run.groupsRemoved = run.groupsRemoved
    /\ live.run.sasRemoved = run.sasRemoved
    /\ live.run.othersRemoved = run.othersRemoved
    /\ NotFound(o.Users, live.run.usersRemoved) = NotFound(o.Users, run.usersRemoved)
    /\ NotFound(o.Groups, live.run.groupsRemoved) = NotFound(o.Groups, run.groupsRemoved)

\* the claim as stated: the lines are the same
C6_DryRunSameLines ==
    DryRunReported =>
       /\ SameDiffsAndSets(LiveReference)
       /\ world.out = LiveReference.world.out

WithoutMarker(lines) == [k \in DOMAIN lines |-> [lines[k] EXCEPT !.dryRunText = ""]]

\* the claim as amended: the lines are the same but for the dry-run marker,
\* which every line of a client dry-run carries and no other line does
C6_DryRunSameLinesButMarker ==
    DryRunReported =>
       /\ SameDiffsAndSets(LiveReference)
       /\ WithoutMarker(world.out) = LiveReference.world.out
       /\ \A k \in DOMAIN world.out :
             world.out[k].dryRunText =
                (IF o.DryRunStrategy = DryRunClient THEN " (dry client run)" ELSE "")

\* a client dry-run that wrote a removal line and a not-bound line
C6_Witness ==
    /\ DryRunReported /\ o.DryRunStrategy = DryRunClient
    /\ \E j, k \in DOMAIN world.out :
          world.out[j].kind = "Removing" /\ world.out[k].kind = "NotBound"

-----------------------------------------------------------------------------
(* C7: the bindings are processed in strictly descending order of name,    *)
(* whatever the order of the listing: the visited bindings, the sink       *)
(* calls and the accumulated list are each strictly descending by name,    *)
(* and the removal lines are in the order of their bindings.               *)
Descending(names) ==
    \A j, k \in DOMAIN names : j < k => StrLess(names[k], names[j])

NonAscending(names) ==
    \A j, k \in DOMAIN names : j < k => ~StrLess(names[j], names[k])

C7_DescendingNameOrder ==
    /\ Descending([k \in DOMAIN run.items |-> run.items[k].Name])
    /\ Descending([k \in DOMAIN run.visited |-> run.visited[k].name])
    /\ Descending([k \in DOMAIN world.calls |-> world.calls[k].name])
    /\ Descending([k \in DOMAIN run.updatedBindings |-> run.updatedBindings[k].Name])
    /\ LET removing == SelectSeq(world.out, LAMBDA l : l.kind = "Removing")
       IN  NonAscending([k \in DOMAIN removing |-> removing[k].binding])

\* three bindings, each with a difference, dispatched and reported as b, ab, a
C7_Witness ==
    /\ Live /\ Succeeded
    /\ [k \in DOMAIN world.calls |-> world.calls[k].name] = <<"b", "ab", "a">>
    /\ [k \in DOMAIN world.out |-> world.out[k].binding] = <<"b", "ab", "a">>

-----------------------------------------------------------------------------
(* C8: a failed Update or Delete ends Run at once with that error: the     *)
(* failed call is the last call, no line is written for its binding nor    *)
(* any not-bound line, nothing is printed, and the stored bindings are the *)
(* listed ones with the earlier, successful calls applied.                 *)

\* the listed bindings with the successful calls applied
Committed ==
    LET okCall(name) == SelectSeq(CallsFor(name), LAMBDA c : c.ok)
        listed == { run.items[k] : k \in DOMAIN run.items }
    IN  { IF okCall(b.Name) = <<>> THEN b ELSE [b EXCEPT !.Subjects = okCall(b.Name)[1].subjects] :
            b \in { x \in listed : \A k \in DOMAIN okCall(x.Name) : okCall(x.Name)[k].op # "Delete" } }

C8_SinkErrorAborts ==
    /\ run.err = "sink" <=> \E k \in DOMAIN world.calls : ~world.calls[k].ok
    /\ \A k \in DOMAIN world.calls :
          ~world.calls[k].ok =>
             /\ k = Len(world.calls)
             /\ run.pc = "done"
             /\ run.err = "sink"
             /\ LinesFor(world.calls[k].name) = <<>>
             /\ \A j \in DOMAIN world.out : world.out[j].kind = "Removing"
             /\ world.printed = <<>>
             /\ run.visited[Len(run.visited)].name = world.calls[k].name
    /\ Listed => world.cluster = Committed

\* the second call of a live run failed after the first deleted its binding,
\* with a third changed binding not reached
C8_Witness ==
    /\ run.err = "sink"
    /\ Len(world.calls) = 2
    /\ world.calls[1].op = "Delete" /\ world.calls[1].ok
    /\ Len(run.items) = 3
    /\ run.items[3].Subjects # <<>> /\ \A k \in DOMAIN run.items[3].Subjects : Targeted(run.items[3].Subjects[k])
    /\ Cardinality(world.cluster) = 2

-----------------------------------------------------------------------------
(* C9: when the listing fails Run returns that error with no sink call, no *)
(* line written and nothing printed.                                       *)
C9_ListErrorAborts ==
    run.err = "list" =>
       /\ run.pc = "done"
       /\ world.calls = <<>>
       /\ world.out = <<>>
       /\ world.printed = <<>>

\* the listing failed in a project holding a binding of a requested user
C9_Witness ==
    /\ run.err = "list"
    /\ \E b \in world.cluster : \E k \in DOMAIN b.Subjects : Targeted(b.Subjects[k])

-----------------------------------------------------------------------------
(* C10: after a successful run without structured output the not-bound     *)
(* lines are the last lines: one for the requested users that are not in   *)
(* usersRemoved, if there are any, then one for the requested groups not   *)
(* in groupsRemoved, if there are any; a single requested user that no     *)
(* binding holds gives exactly one line and no sink call.                  *)
NotBoundLines == SelectSeq(world.out, LAMBDA l : l.kind = "NotBound")

ExpectedNotBound(category, names) ==
    IF names = {} THEN <<>>
    ELSE << [kind |-> "NotBound", role |-> "", category |-> category, names |-> names,
             project |-> Project,
             dryRunText |-> IF o.DryRunStrategy = DryRunClient THEN " (dry client run)" ELSE "",
             binding |-> ""] >>

C10_NotFoundReport ==
    Succeeded /\ o.Output = "" =>
       /\ NotBoundLines = ExpectedNotBound("Users", o.Users \ run.usersRemoved)
                             \o ExpectedNotBound("Groups", o.Groups \ run.groupsRemoved)
       /\ SubSeq(world.out, Len(world.out) - Len(NotBoundLines) + 1, Len(world.out)) = NotBoundLines
       /\ \A u \in o.Users :
             /\ o.Users = {u} /\ o.Groups = {}
             /\ \A k \in DOMAIN run.items : \A j \in DOMAIN run.items[k].Subjects :
                   ~(run.items[k].Subjects[j].Kind = UserKind /\ run.items[k].Subjects[j].Name = u)
             => /\ Len(world.out) = 1
                /\ world.out[1].kind = "NotBound" /\ world.out[1].names = {u}
                /\ world.calls = <<>>

\* remove-user a b in a project where a is bound and b is not: a is removed
\* and b is reported as not bound
C10_Witness ==
    /\ Succeeded /\ o.Output = ""
    /\ o.Users = {"a", "b"}
    /\ run.usersRemoved = {"a"}
    /\ Len(NotBoundLines) = 1 /\ NotBoundLines[1].names = {"b"}

-----------------------------------------------------------------------------
(* C11: a live run that succeeded wrote a report; the same request run     *)
(* again in live mode on the bindings the first run left decides nothing   *)
(* to do for every binding (no sink call) and writes an empty report.      *)

\* the second run: the same options on the stored bindings, in the order of
\* any listing, every collaborator call succeeding
SecondRuns == { RunAll(o, listing) : listing \in Listings(world.cluster) }

SecondRunIsNoOp(second) ==
    /\ second.world.calls = <<>>
    /\ second.world.cluster = world.cluster
    /\ \A k \in DOMAIN second.run.visited :
          second.run.visited[k].remaining = second.run.visited[k].original
    /\ second.run.usersRemoved = {} /\ second.run.groupsRemoved = {}
    /\ \A k \in DOMAIN second.world.out : second.world.out[k].kind # "Removing"

\* the claim as stated: the second report is entirely empty
C11_SecondReportEmpty ==
    Live /\ Succeeded =>
       /\ world.out # <<>>
       /\ \A second \in SecondRuns :
             SecondRunIsNoOp(second) /\ second.world.out = <<>>

\* the claim as amended: the second run changes nothing and reports no
\* removal; its report is the not-bound lines, naming every requested name
C11_SecondRunOnlyNotBound ==
    Live /\ Succeeded =>
       /\ world.out # <<>>
       /\ \A second \in SecondRuns :
             /\ SecondRunIsNoOp(second)
             /\ second.run.pc = "done" /\ second.run.err = "nil"
             /\ second.world.out =
                   (IF o.Users = {} THEN <<>> ELSE <<NotBoundLine(o, "Users", o.Users)>>)
                   \o (IF o.Groups = {} THEN <<>> ELSE <<NotBoundLine(o, "Groups", o.Groups)>>)

\* a first live run that updated one binding and deleted another
C11_Witness ==
    /\ Live /\ Succeeded
    /\ \E j, k \in DOMAIN world.calls :
          /\ world.calls[j].op = "Update" /\ world.calls[j].ok
          /\ world.calls[k].op = "Delete" /\ world.calls[k].ok
    /\ \E l \in DOMAIN world.out : world.out[l].kind = "Removing"

-----------------------------------------------------------------------------
(* C12: when a structured output is requested Run makes no sink call and   *)
(* writes no line; the list it collects, and hands to the printer at the   *)
(* end, holds exactly the changed bindings, in the order visited, each     *)
(* with its filtered subjects (none for a binding that would be deleted).  *)
ChangedVisited == SelectSeq(run.visited, LAMBDA v : Changed(v))

ExpectedCollection ==
    [k \in DOMAIN ChangedVisited |->
        RoleBinding(ChangedVisited[k].name, ChangedVisited[k].remaining)]

C12_AccumulateOnly ==
    o.Output # "" /\ Listed =>
       /\ world.calls = <<>>
       /\ world.out = <<>>
       /\ world.cluster = { run.items[k] : k \in DOMAIN run.items }
       /\ run.updatedBindings = ExpectedCollection
       /\ world.printed = IF run.pc = "done" THEN <<ExpectedCollection>> ELSE <<>>

\* a printed list of two bindings, one left without subjects
C12_Witness ==
    /\ o.Output # "" /\ Succeeded
    /\ Len(run.visited) = 3
    /\ Len(world.printed) = 1 /\ Len(world.printed[1]) = 2
    /\ world.printed[1][1].Subjects = <<>>
    /\ world.printed[1][2].Subjects # <<>>

-----------------------------------------------------------------------------
(* C13: a request with no user and no group is a valid input: the          *)
(* invocation completes without an error, with no sink call and no         *)
(* removal reported.                                                       *)

\* the claim as stated. A finished command holds an empty request when it was
\* given no name, or when it failed on the dry-run flag or on the printer,
\* before the names are stored; the latter two are set aside
C13_EmptyRequestIsValid ==
    run.pc = "done" /\ o.Users = {} /\ o.Groups = {} /\ run.err \notin {"dryrun", "printer"} =>
       /\ run.err = "nil"
       /\ world.calls = <<>>
       /\ \A k \in DOMAIN world.out : world.out[k].kind # "Removing"

\* the claim as amended: Complete rejects a command given no name with an
\* error, before anything is stored, listed, called or written, and Run is
\* never entered with an empty request
C13_EmptyRequestRejected ==
    /\ run.err = "args" =>
          /\ run.pc = "done"
          /\ o = NewRemoveFromProjectOptions
          /\ run.items = <<>> /\ run.visited = <<>>
          /\ world.calls = <<>> /\ world.out = <<>> /\ world.printed = <<>>
    /\ run.pc \in {"Run", "loop"} \/ Listed \/ run.err = "list" =>
          o.Users \cup o.Groups # {}

\* a command given no name, in a project whose bindings hold subjects
C13_Witness ==
    /\ run.err = "args"
    /\ \E b \in world.cluster : b.Subjects # <<>>

-----------------------------------------------------------------------------
(* C14: no run both reports in text (with or without the dry-run marker)   *)
(* and collects bindings for the structured output: lines are written only *)
(* when no output format is set, bindings are collected and printed only   *)
(* when one is, and the marker appears only in a client dry-run without    *)
(* output format.                                                          *)
C14_ModesNotCombined ==
    /\ world.out # <<>> => run.updatedBindings = <<>> /\ world.printed = <<>> /\ o.Output = ""
    /\ run.updatedBindings # <<>> \/ world.printed # <<>> => world.out = <<>> /\ o.Output # ""
    /\ \A k \in DOMAIN world.out :
          world.out[k].dryRunText # "" => o.DryRunStrategy = DryRunClient /\ o.Output = ""

\* --dry-run=client together with -o yaml: the bindings are printed, no line
\* is written
C14_Witness ==
    /\ Succeeded
    /\ o.DryRunStrategy = DryRunClient /\ o.Output = "yaml"
    /\ world.printed # <<>> /\ world.printed[1] # <<>>
    /\ world.out = <<>>

-----------------------------------------------------------------------------
(* C15: every command returns. A run that succeeds has visited every       *)
(* listed binding exactly once; any other run returned at its first error. *)
(* No binding gets more than one sink call, and a step makes at most one   *)
(* call, and only after every earlier call has returned without error.     *)
VisitedNames == [k \in DOMAIN run.visited |-> run.visited[k].name]

OkDeletes == SelectSeq(world.calls, LAMBDA c : c.op = "Delete" /\ c.ok)

C15_TerminatesSequentially ==
    /\ <>(run.pc = "done")
    /\ [](/\ \A j, k \in DOMAIN run.items : j # k => run.items[j].Name # run.items[k].Name
          /\ \A j, k \in DOMAIN VisitedNames : j # k => VisitedNames[j] # VisitedNames[k]
          /\ \A b \in world.cluster : Len(CallsFor(b.Name)) <= 1
          /\ \A k \in DOMAIN VisitedNames : Len(CallsFor(VisitedNames[k])) <= 1
          /\ run.pc = "done" /\ run.err \in {"nil", "print"} /\ run.items # <<>> =>
                /\ Len(run.visited) = Cardinality(world.cluster) + Len(OkDeletes)
                /\ \A b \in world.cluster : \E k \in DOMAIN VisitedNames : VisitedNames[k] = b.Name
                /\ \A k \in DOMAIN world.calls : world.calls[k].ok
          /\ run.err = "list" => run.visited = <<>>
          /\ run.err = "sink" =>
                Cardinality({ k \in DOMAIN world.calls : ~world.calls[k].ok }) = 1)
    /\ [][/\ Len(world.calls') <= Len(world.calls) + 1
          /\ Len(run.visited') <= Len(run.visited) + 1
          /\ Len(world.calls') = Len(world.calls) + 1 =>
                /\ SubSeq(world.calls', 1, Len(world.calls)) = world.calls
                /\ \A k \in DOMAIN world.calls : world.calls[k].ok]_vars

\* a live run that returned after three calls, one per binding
C15_Witness ==
    /\ Live /\ Succeeded
    /\ Len(run.visited) = 3
    /\ Len(world.calls) = 3

-----------------------------------------------------------------------------
(* C16: in live mode every "Removing" line was written for a binding whose *)
(* Update or Delete call succeeded, and names exactly what that binding    *)
(* gave up in the line's category; the stored binding is the filtered one  *)
(* (absent when nothing remained); a binding whose call failed has no line *)
(* and the aggregate removed sets hold only what the bindings with a       *)
(* successful call gave up.                                                *)
CommittedVisited ==
    { v \in Visited : \E k \in DOMAIN world.calls :
                         world.calls[k].name = v.name /\ world.calls[k].ok }

KindOfCategory(category) ==
    IF category = "users" THEN {UserKind}
    ELSE IF category = "groups" THEN {GroupKind}
    ELSE {}

C16_LinesFollowCommits ==
    Live /\ Listed =>
       /\ \A k \in DOMAIN world.out :
             LET l == world.out[k]
             IN  l.kind = "Removing" =>
                    \E v \in CommittedVisited :
                       /\ v.name = l.binding
                       /\ l.names = GivenUp(v, KindOfCategory(l.category))
                       /\ l.names # {}
                       /\ IF v.remaining = <<>>
                          THEN \A b \in world.cluster : b.Name # v.name
                          ELSE \E b \in world.cluster : b.Name = v.name /\ b.Subjects = v.remaining
       /\ \A k \in DOMAIN world.calls :
             ~world.calls[k].ok => LinesFor(world.calls[k].name) = <<>>
       /\ run.usersRemoved = UNION { GivenUp(v, {UserKind}) : v \in CommittedVisited }
       /\ run.groupsRemoved = UNION { GivenUp(v, {GroupKind}) : v \in CommittedVisited }
       /\ run.sasRemoved = {} /\ run.othersRemoved = {}

\* a live run whose first call updated a binding, for which a line was
\* written, and whose second call failed
C16_Witness ==
    /\ Live /\ run.err = "sink"
    /\ Len(world.calls) = 2
    /\ world.calls[1].op = "Update" /\ world.calls[1].ok
    /\ LinesFor(world.calls[1].name) # <<>>
    /\ run.usersRemoved # {}

-----------------------------------------------------------------------------
(* C17: without structured output, every visited binding whose subject     *)
(* count changed and whose sink call, if any, did not fail has at least    *)
(* one "Removing" line, each of its lines names at least one subject, and  *)
(* the users and groups it gave up, of which there is at least one, are in *)
(* the aggregate removed sets; in every mode a changed binding gave up at  *)
(* least one user or group name.                                           *)
CallFailed(name) == \E k \in DOMAIN world.calls : world.calls[k].name = name /\ ~world.calls[k].ok

C17_ChangeIsReported ==
    /\ \A v \in Visited :
          Changed(v) => GivenUp(v, {UserKind}) \cup GivenUp(v, {GroupKind}) # {}
    /\ o.Output = "" /\ Listed =>
          \A v \in Visited :
             Changed(v) /\ ~CallFailed(v.name) =>
                /\ LinesFor(v.name) # <<>>
                /\ \A k \in DOMAIN LinesFor(v.name) :
                      LinesFor(v.name)[k].kind = "Removing" /\ LinesFor(v.name)[k].names # {}
                /\ GivenUp(v, {UserKind}) \subseteq run.usersRemoved
                /\ GivenUp(v, {GroupKind}) \subseteq run.groupsRemoved
                /\ run.usersRemoved \cup run.groupsRemoved # {}

\* a changed binding that held the same user twice and once more with a
\* namespace, reported by a line after its call succeeded
C17_Witness ==
    /\ o.Output = "" /\ Succeeded
    /\ \E v \in Visited :
          /\ Changed(v)
          /\ \E j, k \in DOMAIN v.original : j # k /\ v.original[j] = v.original[k]
          /\ \E j, k \in DOMAIN v.original :
                /\ v.original[j].Kind = v.original[k].Kind
                /\ v.original[j].Name = v.original[k].Name
                /\ v.original[j].Namespace # v.original[k].Namespace
          /\ LinesFor(v.name) # <<>>
          /\ CallsFor(v.name) # <<>>

====
